---- MODULE Spec2Model ----
(***************************************************************************)
(* Model of export_elevenlabs_voices.py: one run of main(), from the       *)
(* command line to process exit.  The environment (command line, prior     *)
(* contents of the two output files, the network's answer, filesystem      *)
(* failures) is nondeterministic.                                          *)
(***************************************************************************)
EXTENDS Integers, Sequences, FiniteSets

VARIABLES
    pc,        \* position of the run inside main()
    argv,      \* sys.argv[1] as a sequence of characters, or NoArg
    api_key,   \* local api_key of main()
    header,    \* value of the xi-api-key header of the request object
    requests,  \* number of urlopen() calls issued
    data,      \* parsed response returned by fetch_voices()
    jsonFile,  \* voices.json on disk
    csvFile,   \* voices.csv on disk
    idx,       \* position of the for-loop of export_to_csv (next record)
    stdout,    \* lines printed to standard output, <<tag, number>>
    stderr,    \* uncaught exception reported by the interpreter's traceback
    exitCode   \* process exit status, Running while the process is alive

vars == <<pc, argv, api_key, header, requests, data, jsonFile, csvFile, idx,
          stdout, stderr, exitCode>>

-----------------------------------------------------------------------------
(* Bounds of the model *)

MaxVoices == 2

Running == 0 - 1

-----------------------------------------------------------------------------
(* Command line *)

NoArg == <<"<noarg>">>
Whitespace == {" ", "\t"}

SeqsUpTo(S, n) == UNION {[1..m -> S] : m \in 0..n}

\* command lines: no argument, the empty string, whitespace only, a key, a
\* key with whitespace around it, a key with whitespace inside
Argvs ==
    {NoArg, <<>>, <<" ">>, <<"\t", " ">>, <<"k">>, <<" ", "k", "\t">>,
     <<"k", " ", "k">>}

\* Strip without the trimming: the argument is used as given
Strip_NoTrim(s) == s

\* str.strip(): drop leading and trailing whitespace
RECURSIVE Strip(_)
Strip(s) ==
    IF s = <<>> THEN s
    ELSE IF Head(s) \in Whitespace THEN Strip(Tail(s))
    ELSE IF s[Len(s)] \in Whitespace THEN Strip(SubSeq(s, 1, Len(s) - 1))
    ELSE s

-----------------------------------------------------------------------------
(* JSON values of the response *)

ABSENT == "<absent>"     \* key not in the mapping
NULL == "<null>"         \* key present with JSON null (Python None)

TopFields == {"voice_id", "name", "category", "description"}
LabelFields == {"gender", "age", "accent"}

NoLabels == [gender |-> ABSENT, age |-> ABSENT, accent |-> ABSENT]
NoTop == [voice_id |-> ABSENT, name |-> ABSENT, category |-> ABSENT,
          description |-> ABSENT]

FullRecord ==
    [kind |-> "map",
     top |-> [voice_id |-> "id1", name |-> "Rachel", category |-> "premade",
              description |-> "calm"],
     labels |-> [kind |-> "map",
                 f |-> [gender |-> "female", age |-> "young",
                        accent |-> "american"]]]

\* voice records of the response: the full record, the record with one field
\* missing or null, with labels missing, null or not a mapping, the empty
\* record, and an entry that is not a mapping at all
Records ==
    {FullRecord}
    \cup {[FullRecord EXCEPT !.top[k] = ABSENT] : k \in TopFields}
    \cup {[FullRecord EXCEPT !.labels.f[k] = ABSENT] : k \in LabelFields}
    \cup {[FullRecord EXCEPT !.top.description = NULL],
          [FullRecord EXCEPT !.labels.f.gender = NULL]}
    \cup {[FullRecord EXCEPT !.labels = [kind |-> lk, f |-> NoLabels]] :
             lk \in {"absent", "null", "other"}}
    \cup {[kind |-> "map", top |-> NoTop,
           labels |-> [kind |-> "absent", f |-> NoLabels]],
          [kind |-> "other", top |-> NoTop,
           labels |-> [kind |-> "absent", f |-> NoLabels]]}

NoVoices == [kind |-> "absent", items |-> <<>>]

\* values of the top-level "voices" key: a list of entries, null, a number
VoicesValues ==
    {[kind |-> "seq", items |-> s] : s \in SeqsUpTo(Records, MaxVoices)}
    \cup {[kind |-> "null", items |-> <<>>], [kind |-> "scalar", items |-> <<>>]}

NoData == [kind |-> "none", hasVoices |-> FALSE, voices |-> NoVoices]

\* results of json.loads: a mapping with or without the key "voices", a list
\* or a string that does or does not contain "voices", a number
ParsedValues ==
    {[kind |-> "dict", hasVoices |-> TRUE, voices |-> v] : v \in VoicesValues}
    \cup {[kind |-> k, hasVoices |-> b, voices |-> NoVoices] :
             k \in {"list", "str"}, b \in BOOLEAN}
    \cup {[kind |-> "dict", hasVoices |-> FALSE, voices |-> NoVoices],
          [kind |-> "scalar", hasVoices |-> FALSE, voices |-> NoVoices]}

HttpErrorCodes == {401, 500}

-----------------------------------------------------------------------------
(* Files *)

NoRows == <<>>

JsonFile(st, content) == [st |-> st, content |-> content]
CsvFile(st, rows) == [st |-> st, rows |-> rows]

\* the files as the process finds them: not there, or left by an earlier run
PriorJson == JsonFile("prior", NoData)
PriorCsv == CsvFile("prior", NoRows)

-----------------------------------------------------------------------------
(* CSV rows *)

fieldnames ==
    <<"voice_id", "name", "category", "gender", "age", "accent", "description">>

\* dict.get(key, ""): the default only when the key is missing
DictGet(m, k) == IF m[k] = ABSENT THEN "" ELSE m[k]

\* the csv writer writes None as the empty string and a string as it is
CsvCell(x) == IF x = NULL THEN "" ELSE x

\* v.get("labels", {}) or {}
LabelsOf(v) ==
    IF v.labels.kind \in {"absent", "null"}
    THEN [kind |-> "map", f |-> NoLabels]
    ELSE v.labels

\* BuildRow with subscripts in place of .get: fields looked up with v[key],
\* labels with v["labels"][key]
BuildRow_Subscript(v) ==
    IF v.kind # "map" THEN [err |-> "TypeError", row |-> <<>>]
    ELSE IF \/ \E k \in TopFields : v.top[k] = ABSENT
            \/ v.labels.kind = "absent"
            \/ \E k \in LabelFields : v.labels.f[k] = ABSENT
    THEN [err |-> "KeyError", row |-> <<>>]
    ELSE [err |-> "",
          row |-> [i \in 1..7 |->
                     IF fieldnames[i] \in TopFields
                     THEN CsvCell(v.top[fieldnames[i]])
                     ELSE CsvCell(v.labels.f[fieldnames[i]])]]

\* the body of the for-loop of export_to_csv up to writer.writerow(row)
BuildRow(v) ==
    IF v.kind # "map" THEN [err |-> "AttributeError", row |-> <<>>]
    ELSE IF LabelsOf(v).kind # "map" THEN [err |-> "AttributeError", row |-> <<>>]
    ELSE LET labels == LabelsOf(v).f
             row == [voice_id |-> DictGet(v.top, "voice_id"),
                     name |-> DictGet(v.top, "name"),
                     category |-> DictGet(v.top, "category"),
                     gender |-> DictGet(labels, "gender"),
                     age |-> DictGet(labels, "age"),
                     accent |-> DictGet(labels, "accent"),
                     description |-> DictGet(v.top, "description")]
         IN [err |-> "",
             row |-> [i \in 1..7 |-> CsvCell(row[fieldnames[i]])]]

-----------------------------------------------------------------------------
(* Process steps *)

Out(line) == stdout' = Append(stdout, line)

\* sys.exit(1)
SysExit == /\ exitCode' = 1
           /\ pc' = "done"

\* an exception nobody catches: traceback on stderr, exit status 1
Uncaught(exc) ==
    /\ stderr' = Append(stderr, exc)
    /\ exitCode' = 1
    /\ pc' = "done"

Init ==
    /\ pc = "start"
    /\ argv \in Argvs
    /\ api_key = <<>>
    /\ header = <<>>
    /\ requests = 0
    /\ data = NoData
    /\ jsonFile = PriorJson
    /\ csvFile = PriorCsv
    /\ idx = 1
    /\ stdout = <<>>
    /\ stderr = <<>>
    /\ exitCode = Running

-----------------------------------------------------------------------------
(* main(): the command line *)

UsageError ==
    /\ pc = "start"
    /\ argv = NoArg
    /\ Out(<<"usage", 0>>)
    /\ SysExit
    /\ UNCHANGED <<argv, api_key, header, requests, data, jsonFile, csvFile,
                   idx, stderr>>

\* EmptyKeyError without the print: the process exits without a message
EmptyKeyError_Silent ==
    /\ pc = "start"
    /\ argv # NoArg
    /\ Strip(argv) = <<>>
    /\ api_key' = Strip(argv)
    /\ SysExit
    /\ UNCHANGED <<argv, header, requests, data, jsonFile, csvFile, idx,
                   stdout, stderr>>

EmptyKeyError ==
    /\ pc = "start"
    /\ argv # NoArg
    /\ Strip(argv) = <<>>
    /\ api_key' = Strip(argv)
    /\ Out(<<"empty_key", 0>>)
    /\ SysExit
    /\ UNCHANGED <<argv, header, requests, data, jsonFile, csvFile, idx,
                   stderr>>

\* BeginFetch with the untrimmed argument in the header
BeginFetch_RawHeader ==
    /\ pc = "start"
    /\ argv # NoArg
    /\ Strip(argv) # <<>>
    /\ api_key' = Strip(argv)
    /\ Out(<<"fetching", 0>>)
    /\ header' = argv
    /\ pc' = "urlopen"
    /\ UNCHANGED <<argv, requests, data, jsonFile, csvFile, idx, stderr,
                   exitCode>>

\* the key is accepted; fetch_voices builds the request and adds the header
BeginFetch ==
    /\ pc = "start"
    /\ argv # NoArg
    /\ Strip(argv) # <<>>
    /\ api_key' = Strip(argv)
    /\ Out(<<"fetching", 0>>)
    /\ header' = api_key'
    /\ pc' = "urlopen"
    /\ UNCHANGED <<argv, requests, data, jsonFile, csvFile, idx, stderr,
                   exitCode>>

-----------------------------------------------------------------------------
(* fetch_voices(): the outcomes of urlopen / read / json.loads *)

\* FetchTransportError without sys.exit: the handler reports and returns None
FetchTransportError_NoExit ==
    /\ pc = "urlopen"
    /\ requests' = requests + 1
    /\ Out(<<"conn_error", 0>>)
    /\ data' = [kind |-> "scalar", hasVoices |-> FALSE, voices |-> NoVoices]
    /\ pc' = "validate"
    /\ UNCHANGED <<argv, api_key, header, jsonFile, csvFile, idx, stderr,
                   exitCode>>

FetchTransportError ==
    /\ pc = "urlopen"
    /\ requests' = requests + 1
    /\ Out(<<"conn_error", 0>>)
    /\ SysExit
    /\ UNCHANGED <<argv, api_key, header, data, jsonFile, csvFile, idx,
                   stderr>>

FetchHTTPError ==
    /\ pc = "urlopen"
    /\ \E code \in HttpErrorCodes :
        /\ requests' = requests + 1
        /\ Out(<<"http_error", code>>)
        /\ pc' = "errbody"
        /\ UNCHANGED <<argv, api_key, header, data, jsonFile, csvFile,
                       idx, stderr, exitCode>>

\* ReadErrorBody without the inner try: a failing read of the body escapes
ReadErrorBody_Escapes ==
    /\ pc = "errbody"
    /\ \/ /\ Out(<<"response_body", 0>>)
          /\ SysExit
          /\ UNCHANGED stderr
       \/ /\ Uncaught("OSError")
          /\ UNCHANGED stdout
    /\ UNCHANGED <<argv, api_key, header, requests, data, jsonFile, csvFile,
                   idx>>

\* the best-effort read of the error body: printed if it can be read and
\* decoded, skipped if that raises; sys.exit(1) either way
ReadErrorBody ==
    /\ pc = "errbody"
    /\ \E readable \in BOOLEAN :
          stdout' = IF readable THEN Append(stdout, <<"response_body", 0>>)
                    ELSE stdout
    /\ SysExit
    /\ UNCHANGED <<argv, api_key, header, requests, data, jsonFile, csvFile,
                   idx, stderr>>

\* resp.read(), decode or json.loads raises: none of them is caught
FetchBodyFailure ==
    /\ pc = "urlopen"
    /\ \E exc \in {"IncompleteRead", "UnicodeDecodeError", "JSONDecodeError"} :
        /\ requests' = requests + 1
        /\ Uncaught(exc)
        /\ UNCHANGED <<argv, api_key, header, data, jsonFile, csvFile,
                       idx, stdout>>

FetchReturns ==
    /\ pc = "urlopen"
    /\ \E v \in ParsedValues :
        /\ requests' = requests + 1
        /\ data' = v
        /\ pc' = "validate"
        /\ UNCHANGED <<argv, api_key, header, jsonFile, csvFile, idx,
                       stdout, stderr, exitCode>>

-----------------------------------------------------------------------------
(* main(): the check of the "voices" key *)

\* "voices" not in data, with data a number: the operator raises
ValidateTypeError ==
    /\ pc = "validate"
    /\ data.kind = "scalar"
    /\ Uncaught("TypeError")
    /\ UNCHANGED <<argv, api_key, header, requests, data, jsonFile, csvFile,
                   idx, stdout>>

\* ValidateMissingKey without sys.exit: the warning is printed, the run goes on
ValidateMissingKey_NoExit ==
    /\ pc = "validate"
    /\ data.kind # "scalar"
    /\ ~data.hasVoices
    /\ stdout' = stdout \o <<(<<"warning", 0>>), (<<"raw_dump", 0>>)>>
    /\ pc' = "export_json"
    /\ UNCHANGED <<argv, api_key, header, requests, data, jsonFile, csvFile,
                   idx, stderr, exitCode>>

ValidateMissingKey ==
    /\ pc = "validate"
    /\ data.kind # "scalar"
    /\ ~data.hasVoices
    /\ stdout' = stdout \o <<(<<"warning", 0>>), (<<"raw_dump", 0>>)>>
    /\ SysExit
    /\ UNCHANGED <<argv, api_key, header, requests, data, jsonFile, csvFile,
                   idx, stderr>>

\* ValidatePass with the exports swapped: the CSV export runs first
ValidatePass_CsvFirst ==
    /\ pc = "validate"
    /\ data.kind # "scalar"
    /\ data.hasVoices
    /\ pc' = "export_csv"
    /\ UNCHANGED <<argv, api_key, header, requests, data, jsonFile, csvFile,
                   idx, stdout, stderr, exitCode>>

ValidatePass ==
    /\ pc = "validate"
    /\ data.kind # "scalar"
    /\ data.hasVoices
    /\ pc' = "export_json"
    /\ UNCHANGED <<argv, api_key, header, requests, data, jsonFile, csvFile,
                   idx, stdout, stderr, exitCode>>

-----------------------------------------------------------------------------
(* export_to_json() *)

JsonErrors == {"OSError", "UnicodeEncodeError"}

\* open(filename, "w") raises: the file is not touched
ExportJsonOpenFail ==
    /\ pc = "export_json"
    /\ Uncaught("OSError")
    /\ UNCHANGED <<argv, api_key, header, requests, data, jsonFile, csvFile,
                   idx, stdout>>

\* open(filename, "w") creates or truncates the file
ExportJsonOpen ==
    /\ pc = "export_json"
    /\ jsonFile' = JsonFile("open", NoData)
    /\ pc' = "json_dump"
    /\ UNCHANGED <<argv, api_key, header, requests, data, csvFile, idx,
                   stdout, stderr, exitCode>>

\* json.dump raises part-way: the file is left incomplete
ExportJsonDumpFail ==
    /\ pc = "json_dump"
    /\ \E exc \in JsonErrors :
        /\ Uncaught(exc)
        /\ UNCHANGED <<argv, api_key, header, requests, data, jsonFile,
                       csvFile, idx, stdout>>

ExportJsonDump ==
    /\ pc = "json_dump"
    /\ jsonFile' = JsonFile("written", data)
    /\ Out(<<"wrote_json", 0>>)
    /\ pc' = "export_csv"
    /\ UNCHANGED <<argv, api_key, header, requests, data, csvFile, idx,
                   stderr, exitCode>>

-----------------------------------------------------------------------------
(* export_to_csv() *)

\* CsvFailure with a cleanup: the JSON file of this run is removed again
CsvFailure_Rollback(exc) ==
    /\ Uncaught(exc)
    /\ jsonFile' = JsonFile("removed", NoData)
    /\ UNCHANGED <<argv, api_key, header, requests, data, idx, stdout>>

\* an exception leaves export_to_csv and main: nothing is cleaned up
CsvFailure(exc) ==
    /\ Uncaught(exc)
    /\ UNCHANGED <<argv, api_key, header, requests, data, jsonFile, idx,
                   stdout>>

\* LoopDone off by one: the loop stops one record early
LoopDone_Early == idx >= Len(data.voices.items)

\* the for-loop over voices has no record left
LoopDone == idx > Len(data.voices.items)

\* data.get on a list or a string
ExportCsvGetFail ==
    /\ pc = "export_csv"
    /\ data.kind # "dict"
    /\ CsvFailure("AttributeError")
    /\ UNCHANGED csvFile

ExportCsvOpenFail ==
    /\ pc = "export_csv"
    /\ data.kind = "dict"
    /\ CsvFailure("OSError")
    /\ UNCHANGED csvFile

\* open(filename, "w") and writer.writeheader()
ExportCsvOpen ==
    /\ pc = "export_csv"
    /\ data.kind = "dict"
    /\ csvFile' = CsvFile("open", <<fieldnames>>)
    /\ idx' = 1
    /\ pc' = "csv_rows"
    /\ UNCHANGED <<argv, api_key, header, requests, data, jsonFile,
                   stdout, stderr, exitCode>>

\* a write to the file raises: the file is left incomplete
ExportCsvWriteFail ==
    /\ pc = "csv_rows"
    /\ CsvFailure("OSError")
    /\ UNCHANGED csvFile

\* for v in voices, with voices null or a number
ExportCsvNotIterable ==
    /\ pc = "csv_rows"
    /\ data.voices.kind # "seq"
    /\ CsvFailure("TypeError")
    /\ UNCHANGED csvFile

\* one iteration of the loop whose record cannot be read
ExportCsvRowFail ==
    /\ pc = "csv_rows"
    /\ data.voices.kind = "seq"
    /\ ~LoopDone
    /\ BuildRow(data.voices.items[idx]).err # ""
    /\ CsvFailure(BuildRow(data.voices.items[idx]).err)
    /\ UNCHANGED csvFile

\* one iteration of the loop: the row of record idx is written
ExportCsvRow ==
    /\ pc = "csv_rows"
    /\ data.voices.kind = "seq"
    /\ ~LoopDone
    /\ BuildRow(data.voices.items[idx]).err = ""
    /\ csvFile' = CsvFile("open",
                          Append(csvFile.rows, BuildRow(data.voices.items[idx]).row))
    /\ idx' = idx + 1
    /\ UNCHANGED <<pc, argv, api_key, header, requests, data, jsonFile,
                   stdout, stderr, exitCode>>

\* the file is closed, the count is printed, main returns: exit status 0
ExportCsvFinish ==
    /\ pc = "csv_rows"
    /\ data.voices.kind = "seq"
    /\ LoopDone
    /\ csvFile' = CsvFile("written", csvFile.rows)
    /\ Out(<<"wrote_csv", Len(data.voices.items)>>)
    /\ exitCode' = 0
    /\ pc' = "done"
    /\ UNCHANGED <<argv, api_key, header, requests, data, jsonFile, idx,
                   stderr>>

-----------------------------------------------------------------------------

Next ==
    \/ UsageError
    \/ EmptyKeyError
    \/ BeginFetch
    \/ FetchTransportError
    \/ FetchHTTPError
    \/ ReadErrorBody
    \/ FetchBodyFailure
    \/ FetchReturns
    \/ ValidateTypeError
    \/ ValidateMissingKey
    \/ ValidatePass
    \/ ExportJsonOpenFail
    \/ ExportJsonOpen
    \/ ExportJsonDumpFail
    \/ ExportJsonDump
    \/ ExportCsvGetFail
    \/ ExportCsvOpenFail
    \/ ExportCsvOpen
    \/ ExportCsvWriteFail
    \/ ExportCsvNotIterable
    \/ ExportCsvRowFail
    \/ ExportCsvRow
    \/ ExportCsvFinish

Spec == Init /\ [][Next]_vars

-----------------------------------------------------------------------------
(* Vocabulary of the properties *)

Done == pc = "done"

Printed(tag) == \E i \in 1..Len(stdout) : stdout[i][1] = tag

\* the messages that report a failure, as opposed to progress
FailureTags ==
    {"usage", "empty_key", "conn_error", "http_error", "response_body",
     "warning", "raw_dump"}

Diagnostics == {t \in FailureTags : Printed(t)}

Untouched == jsonFile = PriorJson /\ csvFile = PriorCsv

OnlyWhitespace(s) == \A i \in 1..Len(s) : s[i] \in Whitespace

NoCredential == argv = NoArg \/ OnlyWhitespace(argv)

\* t is s without a run of leading and a run of trailing whitespace, and
\* neither starts nor ends with whitespace
IsTrimOf(t, s) ==
    /\ t # <<>>
    /\ Head(t) \notin Whitespace
    /\ t[Len(t)] \notin Whitespace
    /\ \E i \in 0..Len(s), j \in 0..Len(s) :
          /\ i + j <= Len(s)
          /\ t = SubSeq(s, i + 1, Len(s) - j)
          /\ \A n \in 1..i : s[n] \in Whitespace
          /\ \A n \in (Len(s) - j + 1)..Len(s) : s[n] \in Whitespace

\* what the CSV column col of record v has to hold
ExpectedCell(v, col) ==
    IF col \in TopFields
    THEN IF v.top[col] \in {ABSENT, NULL} THEN "" ELSE v.top[col]
    ELSE IF v.labels.kind # "map" THEN ""
    ELSE IF v.labels.f[col] \in {ABSENT, NULL} THEN ""
    ELSE v.labels.f[col]

ExpectedRow(v) == [c \in 1..7 |-> ExpectedCell(v, fieldnames[c])]

\* an entry export_to_csv cannot read: not a mapping, or labels not a mapping
IllShaped(v) == v.kind # "map" \/ v.labels.kind = "other"

\* the terminal outcomes of a run
IsSuccess ==
    /\ exitCode = 0
    /\ stderr = <<>>
    /\ Diagnostics = {}
    /\ jsonFile.st = "written"
    /\ csvFile.st = "written"

IsCredentialMissing ==
    /\ exitCode = 1
    /\ stderr = <<>>
    /\ Diagnostics \in {{"usage"}, {"empty_key"}}
    /\ requests = 0
    /\ Untouched

IsTransportError ==
    /\ exitCode = 1
    /\ stderr = <<>>
    /\ Diagnostics = {"conn_error"}
    /\ Untouched

IsHttpStatusError ==
    /\ exitCode = 1
    /\ stderr = <<>>
    /\ Diagnostics \in {{"http_error"}, {"http_error", "response_body"}}
    /\ Untouched

IsMissingKey ==
    /\ exitCode = 1
    /\ stderr = <<>>
    /\ Diagnostics = {"warning", "raw_dump"}
    /\ Untouched

IsUnhandled ==
    /\ exitCode = 1
    /\ Len(stderr) = 1
    /\ Diagnostics = {}

FiveOutcomes ==
    (IF IsSuccess THEN {"success"} ELSE {})
    \cup (IF IsCredentialMissing THEN {"credential"} ELSE {})
    \cup (IF IsTransportError THEN {"transport"} ELSE {})
    \cup (IF IsHttpStatusError THEN {"http"} ELSE {})
    \cup (IF IsMissingKey THEN {"missing_key"} ELSE {})

SixOutcomes == FiveOutcomes \cup (IF IsUnhandled THEN {"unhandled"} ELSE {})

-----------------------------------------------------------------------------
(* C1: with the credential argument absent, or empty once surrounding        *)
(* whitespace is trimmed, the run never leaves the argument check, issues    *)
(* no network request, and exits with status 1.                              *)
C1_NoCredentialNoRequest ==
    NoCredential =>
        /\ requests = 0
        /\ header = <<>>
        /\ pc \in {"start", "done"}
        /\ Done => exitCode = 1
        /\ Done \/ ENABLED Next

C1_Witness ==
    /\ Done
    /\ argv # NoArg
    /\ Len(argv) > 0
    /\ OnlyWhitespace(argv)
    /\ exitCode = 1

C3_StageOrder ==
    [][/\ requests' # requests =>
             /\ requests = 0
             /\ requests' = 1
             /\ data = NoData
             /\ Untouched
       /\ data' # data => requests' = 1 /\ data = NoData /\ Untouched
       /\ jsonFile' # jsonFile =>
             /\ requests = 1
             /\ data.kind # "scalar"
             /\ data.hasVoices
             /\ data' = data
             /\ jsonFile.st # "written"
             /\ csvFile = PriorCsv
             /\ csvFile' = csvFile
       /\ csvFile' # csvFile =>
             /\ jsonFile = JsonFile("written", data)
             /\ jsonFile' = jsonFile
             /\ csvFile.st # "written"
             /\ data' = data
             /\ requests' = requests]_vars

C3_Witness ==
    /\ Done
    /\ requests = 1
    /\ jsonFile.st = "written"
    /\ csvFile.st = "written"
    /\ Len(csvFile.rows) > 1

(* C4, as stated: every finished run shows exactly one of the five outcomes  *)
(* success, credential missing, transport error, HTTP-status error, missing  *)
(* key.                                                                      *)
C4_FiveOutcomesOnly == Done => Cardinality(FiveOutcomes) = 1

(* C4, amended: a run always can take a step until it is finished, and every *)
(* finished run shows exactly one of six outcomes: the five above, or an     *)
(* uncaught exception (unreadable or malformed body, a body of the wrong     *)
(* shape, a filesystem error during an export) reported by a traceback.      *)
C4_SixOutcomes ==
    /\ Done \/ ENABLED Next
    /\ Done => Cardinality(SixOutcomes) = 1
    /\ ~Done => exitCode = Running

C4_Witness ==
    /\ Done
    /\ SixOutcomes = {"unhandled"}
    /\ stderr = <<"JSONDecodeError">>

(* C5, as stated: every run that fails has printed diagnostic text to        *)
(* standard output and exits with a non-zero status.                         *)
C5_DiagnosticOnStdout ==
    (Done /\ ~(jsonFile.st = "written" /\ csvFile.st = "written")) =>
        /\ exitCode # 0
        /\ Diagnostics # {}

(* C5, amended: every run that fails exits with a non-zero status and has    *)
(* reported the failure: a missing or empty credential, a transport error,   *)
(* an HTTP-status error and a missing key are reported on standard output;   *)
(* an uncaught exception is reported by a traceback on standard error, with  *)
(* nothing but progress messages on standard output.                         *)
C5_DiagnosticSomewhere ==
    (Done /\ ~(jsonFile.st = "written" /\ csvFile.st = "written")) =>
        /\ exitCode = 1
        /\ Diagnostics # {} \/ stderr # <<>>
        /\ NoCredential => Diagnostics # {}
        /\ (requests = 1 /\ data = NoData /\ stderr = <<>>) =>
               Diagnostics \cap {"conn_error", "http_error"} # {}
        /\ (data.kind \in {"dict", "list", "str"} /\ ~data.hasVoices) =>
               "warning" \in Diagnostics
        /\ stderr # <<>> => Diagnostics = {}

C5_Witness ==
    /\ Done
    /\ exitCode = 1
    /\ Diagnostics = {}
    /\ stderr = <<"OSError">>
    /\ jsonFile.st = "open"

(* C6, as stated: the xi-api-key header of the request is the command-line   *)
(* credential, character for character.                                      *)
C6_HeaderVerbatim == requests > 0 => header = argv

(* C6, amended: the xi-api-key header of the request is the command-line     *)
(* credential without its leading and trailing whitespace; everything        *)
(* between is forwarded unchanged.                                           *)
C6_HeaderTrimmed ==
    (requests > 0 \/ pc = "urlopen") =>
        /\ argv # NoArg
        /\ IsTrimOf(header, argv)
        /\ api_key = header

C6_Witness ==
    /\ requests = 1
    /\ Head(argv) \in Whitespace
    /\ header # argv
    /\ IsTrimOf(header, argv)

(* C7: for a response whose "voices" is a list of N records, the finished    *)
(* CSV export holds the header row followed by N data rows, row i made from  *)
(* record i, and the printed count is N; while the loop runs the file holds  *)
(* the header and the rows of the records already visited.                  *)
C7_RowCount ==
    /\ csvFile.st = "written" =>
          /\ data.voices.kind = "seq"
          /\ Len(csvFile.rows) = Len(data.voices.items) + 1
          /\ stdout[Len(stdout)] = <<"wrote_csv", Len(data.voices.items)>>
    /\ csvFile.st \in {"open", "written"} =>
          /\ csvFile.rows[1] = fieldnames
          /\ Len(csvFile.rows) <= Len(data.voices.items) + 1
          /\ \A i \in 2..Len(csvFile.rows) :
                csvFile.rows[i] = ExpectedRow(data.voices.items[i - 1])

C7_Witness ==
    /\ csvFile.st = "written"
    /\ Len(data.voices.items) = 2
    /\ data.voices.items[1] # data.voices.items[2]
    /\ csvFile.rows[2] # csvFile.rows[3]

(* C8: a missing field never makes export_to_csv fail: a record without      *)
(* labels, or whose labels lack gender, age or accent, or that lacks         *)
(* voice_id, name, category or description, gets the empty string in that    *)
(* column, and every string that is present is copied to its own column.     *)
(* The export fails only on a filesystem error or on an entry that is not a  *)
(* mapping (or whose labels are not).                                        *)
C8_FieldDefaults ==
    /\ \A i \in 2..Len(csvFile.rows) :
          \A c \in 1..7 :
             csvFile.rows[i][c] =
                 ExpectedCell(data.voices.items[i - 1], fieldnames[c])
    /\ (Done /\ csvFile.st = "open" /\ stderr # <<"OSError">>) =>
          \/ data.voices.kind # "seq"
          \/ /\ idx <= Len(data.voices.items)
             /\ IllShaped(data.voices.items[idx])
    /\ (pc = "csv_rows" /\ data.voices.kind = "seq"
          /\ idx <= Len(data.voices.items)
          /\ ~IllShaped(data.voices.items[idx])) => ENABLED ExportCsvRow

C8_Witness ==
    /\ csvFile.st = "written"
    /\ Len(data.voices.items) = 2
    /\ data.voices.items[1].labels.kind = "absent"
    /\ data.voices.items[2].top.name = ABSENT
    /\ csvFile.rows[2][4] = ""
    /\ csvFile.rows[3][2] = ""
    /\ csvFile.rows[3][1] = "id1"

(* C9: once voices.json is completely written it stays on disk with the      *)
(* content of this run, whatever happens afterwards; if the CSV export then  *)
(* fails the process ends with a non-zero status. No file that was opened    *)
(* for writing is ever put back or removed.                                  *)
C9_NoRollback ==
    /\ [](Printed("wrote_json") =>
            /\ jsonFile = JsonFile("written", data)
            /\ (Done /\ csvFile.st # "written") =>
                   exitCode # 0 /\ exitCode # Running)
    /\ [][/\ jsonFile.st \in {"open", "written"} =>
                jsonFile'.st \in {"open", "written"}
          /\ jsonFile.st = "written" => jsonFile' = jsonFile
          /\ csvFile.st \in {"open", "written"} =>
                csvFile'.st \in {"open", "written"}]_vars

C9_Witness ==
    /\ Done
    /\ exitCode = 1
    /\ Printed("wrote_json")
    /\ jsonFile = JsonFile("written", data)
    /\ csvFile.st = "open"
    /\ Len(csvFile.rows) = 2

(* C10: on an HTTP error response the status code is printed first, then the *)
(* error body is printed if it can be read and skipped if not; either way    *)
(* nothing escapes the handler, the run ends with exit status 1 and no file  *)
(* is written.                                                               *)
C10_ErrorBodyBestEffort ==
    Printed("http_error") =>
        /\ stdout[1] = <<"fetching", 0>>
        /\ stdout[2][1] = "http_error"
        /\ stdout[2][2] >= 400
        /\ Len(stdout) <= 3
        /\ Len(stdout) = 3 => stdout[3] = <<"response_body", 0>>
        /\ pc \in {"errbody", "done"}
        /\ pc = "errbody" => Len(stdout) = 2 /\ ENABLED Next
        /\ Done => exitCode = 1
        /\ stderr = <<>>
        /\ data = NoData
        /\ Untouched

C10_Witness ==
    /\ Done
    /\ Printed("http_error")
    /\ ~Printed("response_body")
    /\ exitCode = 1

====
